---- MODULE Spec2Model ----
(***************************************************************************)
(* CV / job-offer matching: the scoring pipeline of matching/scorer.py,    *)
(* matching/extractor.py and matching/serializers.py.                      *)
(*                                                                         *)
(* Python values are represented as follows.                               *)
(*   str            a sequence of one-character strings                    *)
(*   Optional[int]  << >> for None, <<n>> for the integer n                *)
(*   float          an exact fraction [num, den] in lowest terms           *)
(*   dict           a set of <<key, value>> pairs                          *)
(*   a call         [ok, value, exc]: the value returned or the exception  *)
(***************************************************************************)
EXTENDS Integers, Sequences, FiniteSets, TLC

\* ------------------------------------------------------------------ bounds
MaxYears == 4
MaxRank == 5
MaxReqLen == 3
MaxSkills == 2

VARIABLES
    provider,    \* settings.EXTRACTION_MODEL_PROVIDER
    cvs,         \* the CV rows
    matchings,   \* the CVMatching rows
    now,         \* timezone.now()
    run,         \* the score_job_offer request each worker is serving
    history,     \* the scoring runs that returned, oldest first
    scorer       \* a GlobalScorer whose scoring methods are called directly

vars == <<provider, cvs, matchings, now, run, history, scorer>>

\* ------------------------------------------------------------ Python values
None == << >>
Some(n) == <<n>>
Opt(S) == {None} \cup {Some(n) : n \in S}

RECURSIVE Gcd(_, _)
Gcd(a, b) == IF b = 0 THEN a ELSE Gcd(b, a % b)

Abs(n) == IF n < 0 THEN -n ELSE n

\* The float n/d (d > 0), in lowest terms.
Frac(n, d) ==
    LET g == Gcd(Abs(n), d)
    IN [num |-> n \div g, den |-> d \div g]

FracLe(x, y) == x.num * y.den <= y.num * x.den

Ok(v) == [ok |-> TRUE, value |-> v, exc |-> ""]
Raise(e) == [ok |-> FALSE, value |-> Frac(0, 1), exc |-> e]

Range(s) == {s[i] : i \in DOMAIN s}

\* ------------------------------------------------------------------ strings
Whitespace == {" ", "\n"}

LowerChar(c) == IF c = "A" THEN "a" ELSE IF c = "B" THEN "b" ELSE c

\* str.lower()
Lower(s) == [i \in DOMAIN s |-> LowerChar(s[i])]

\* str.strip()
RECURSIVE LStrip(_)
LStrip(s) ==
    IF s # << >> /\ Head(s) \in Whitespace THEN LStrip(Tail(s)) ELSE s

RECURSIVE RStrip(_)
RStrip(s) ==
    IF s # << >> /\ s[Len(s)] \in Whitespace
    THEN RStrip(SubSeq(s, 1, Len(s) - 1))
    ELSE s

Strip(s) == RStrip(LStrip(s))

\* str.split(sep): one more piece than there are separators, empty pieces kept
RECURSIVE Split(_, _)
Split(s, sep) ==
    IF \E i \in DOMAIN s : s[i] = sep
    THEN LET i == CHOOSE k \in DOMAIN s :
                      s[k] = sep /\ \A j \in 1..(k - 1) : s[j] # sep
         IN <<SubSeq(s, 1, i - 1)>> \o Split(SubSeq(s, i + 1, Len(s)), sep)
    ELSE <<s>>

\* sep.join(list)
RECURSIVE Join(_, _)
Join(sep, list) ==
    IF list = << >> THEN << >>
    ELSE IF Len(list) = 1 THEN list[1]
    ELSE list[1] \o sep \o Join(sep, Tail(list))

StrUpTo(alphabet, n) == UNION {[1..k -> alphabet] : k \in 0..n}
SeqUpTo(S, n) == UNION {[1..k -> S] : k \in 0..n}

\* ------------------------------------------------- the deterministic scorer
\* The rule of three without its "* 100.0".
_score_experience_ratio(offer, extractor) ==
    IF offer.required_experience <= 0 THEN Ok(Frac(100, 1))
    ELSE IF extractor.year_experience = None THEN Raise("TypeError")
    ELSE IF extractor.year_experience[1] >= offer.required_experience
    THEN Ok(Frac(100, 1))
    ELSE Ok(Frac(extractor.year_experience[1], offer.required_experience))

\* The rule of three with no test for a candidate at or above the requirement.
_score_experience_uncapped(offer, extractor) ==
    IF offer.required_experience <= 0 THEN Ok(Frac(100, 1))
    ELSE IF extractor.year_experience = None THEN Raise("TypeError")
    ELSE Ok(Frac(extractor.year_experience[1] * 100,
                 offer.required_experience))

_score_experience(offer, extractor) ==
    IF offer.required_experience <= 0 THEN Ok(Frac(100, 1))
    ELSE IF extractor.year_experience = None THEN Raise("TypeError")
    ELSE IF extractor.year_experience[1] >= offer.required_experience
    THEN Ok(Frac(100, 1))
    ELSE Ok(Frac(extractor.year_experience[1] * 100,
                 offer.required_experience))

candidate_skills(extractor) == {Lower(skill) : skill \in Range(extractor.skills)}

required_skills(offer) ==
    {Lower(Strip(skill)) : skill \in Range(Split(offer.required_skills, ","))}

\* The share of the required skills the candidate holds.
_score_skills_by_required(offer, extractor) ==
    IF offer.required_skills = << >> THEN Ok(Frac(100, 1))
    ELSE LET matches == required_skills(offer) \cap candidate_skills(extractor)
         IN IF candidate_skills(extractor) = {} THEN Ok(Frac(0, 1))
            ELSE Ok(Frac(Cardinality(matches) * 100,
                         Cardinality(required_skills(offer))))

_score_skills(offer, extractor) ==
    IF offer.required_skills = << >> THEN Ok(Frac(100, 1))
    ELSE LET matches == required_skills(offer) \cap candidate_skills(extractor)
         IN IF candidate_skills(extractor) = {} THEN Ok(Frac(0, 1))
            ELSE Ok(Frac(Cardinality(matches) * 100,
                         Cardinality(candidate_skills(extractor))))

\* Python truthiness of an Optional[int]
Truthy(x) == x # None /\ x[1] # 0

\* An Optional[int] divisor: None is a TypeError, 0 a ZeroDivisionError.
TrueDiv100(n, d) ==
    IF d = None THEN Raise("TypeError")
    ELSE IF d[1] = 0 THEN Raise("ZeroDivisionError")
    ELSE IF d[1] < 0 THEN Ok(Frac((0 - n) * 100, 0 - d[1]))
    ELSE Ok(Frac(n * 100, d[1]))

\* The comparison made against the raw field, with no "else 0".
_score_diploma_raw_rank(offer, extractor) ==
    IF extractor.diploma_ranking = None
       \/ offer.required_diploma_ranking = None
    THEN Raise("TypeError")
    ELSE IF extractor.diploma_ranking[1] >= offer.required_diploma_ranking[1]
    THEN Ok(Frac(100, 1))
    ELSE TrueDiv100(extractor.diploma_ranking[1],
                    offer.required_diploma_ranking)

_score_diploma(offer, extractor) ==
    LET required_diploma_ranking ==
            IF Truthy(offer.required_diploma_ranking)
            THEN offer.required_diploma_ranking[1]
            ELSE 0
    IN IF extractor.diploma_ranking = None THEN Raise("TypeError")
       ELSE IF extractor.diploma_ranking[1] >= required_diploma_ranking
       THEN Ok(Frac(100, 1))
       ELSE TrueDiv100(extractor.diploma_ranking[1],
                       offer.required_diploma_ranking)

\* The three scores, or the first exception raised.
compute_deterministic_score(offer, extractor) ==
    LET experience_score == _score_experience(offer, extractor)
        skill_score == _score_skills(offer, extractor)
        diploma_score == _score_diploma(offer, extractor)
    IN IF ~experience_score.ok
       THEN [ok |-> FALSE, exc |-> experience_score.exc, value |-> {}]
       ELSE IF ~skill_score.ok
       THEN [ok |-> FALSE, exc |-> skill_score.exc, value |-> {}]
       ELSE IF ~diploma_score.ok
       THEN [ok |-> FALSE, exc |-> diploma_score.exc, value |-> {}]
       ELSE [ok |-> TRUE, exc |-> "",
             value |-> {<<"experience_score", experience_score.value>>,
                        <<"skill_score", skill_score.value>>,
                        <<"diploma_score", diploma_score.value>>}]

\* ------------------------------------------------------- float arithmetic
FracAdd(x, y) == Frac(x.num * y.den + y.num * x.den, x.den * y.den)
FracMul(x, y) == Frac(x.num * y.num, x.den * y.den)

\* --------------------------------------------------------------- dict, json
Get(dict, key) == (CHOOSE p \in dict : p[1] = key)[2]

\* The field order of ScoringData, which is the key order of result.dict().
ScoringDataKeys ==
    <<"experience", "skills", "education", "languages", "job_fit",
      "score_comments", "strengths", "weaknesses", "missing_skills", "summary">>

\* A value json has no encoder for (it stands in the summary field).
Unencodable == <<"<object>">>

\* json.dumps of a dict keyed by ScoringData's fields: the text, token by
\* token, or TypeError.
json_dumps(dict) ==
    LET keys == SelectSeq(ScoringDataKeys, LAMBDA k : \E p \in dict : p[1] = k)
    IN IF \E p \in dict : p[1] = "summary" /\ p[2] = Unencodable
       THEN [ok |-> FALSE, value |-> << >>, exc |-> "TypeError"]
       ELSE [ok |-> TRUE, exc |-> "",
             value |-> <<"{">> \o [i \in DOMAIN keys |-> <<keys[i], Get(dict, keys[i])>>]
                       \o <<"}">>]

\* json.loads of such a text
json_loads(text) == Range(SubSeq(text, 2, Len(text) - 1))

\* CVMatchingSerializer.get_score_details
get_score_details(obj) ==
    IF obj.score_description = << >> THEN {}
    ELSE json_loads(obj.score_description)

\* -------------------------------------------------------------- the records
SupportedProviders == {"openai", "anthropic", "ollama"}
Providers == SupportedProviders \cup {"none"}

Workers == {1, 2}

\* The JobOffer rows.
JobOffers ==
    <<[required_experience |-> 4, required_skills |-> <<"a", ",", " ", "B">>,
       required_diploma_ranking |-> Some(5)],
      [required_experience |-> 0, required_skills |-> << >>,
       required_diploma_ranking |-> None]>>

Jobs == DOMAIN JobOffers

\* The uploaded files: the suffix of the path and the text each page (PDF) or
\* the document (Word) yields.
CVFiles ==
    <<[suffix |-> ".pdf", texts |-> <<<<"x">>, << >>, <<"y", " ">>>>],
      [suffix |-> ".txt", texts |-> <<<<"x">>>>],
      [suffix |-> ".DOC", texts |-> <<<<" ", "\n">>>>],
      [suffix |-> ".docx", texts |-> <<<<" ", "z">>>>]>>

CVIds == DOMAIN CVFiles

\* A CV row as uploaded, nothing extracted yet.
NewCV(file) ==
    [file |-> file, name |-> Some(<< >>), website |-> Some(<< >>),
     phone_number |-> Some(<< >>), email |-> Some(<< >>),
     description |-> Some(<< >>), skills |-> << >>, diploma |-> Some(<< >>),
     diploma_ranking |-> None, year_experience |-> None,
     experiences |-> Some(<< >>), languages |-> << >>,
     certifications |-> << >>, raw_text |-> None]

\* CVData with every field left at its default.
CVData ==
    [name |-> None, website |-> None, phone_number |-> None, email |-> None,
     description |-> None, skills |-> << >>, diploma |-> None,
     diploma_ranking |-> 0, year_experience |-> 0, experiences |-> None,
     languages |-> << >>, certifications |-> << >>]

\* What the extraction model may return (CVData).
\* A full profile, the same with no website found, a profile of empty
\* values, and the defaults.
CVDataSet ==
    {[name |-> Some(<<"n">>), website |-> w, phone_number |-> Some(<<"p">>),
      email |-> Some(<<"@">>), description |-> Some(<<"d">>),
      skills |-> <<<<"a">>, <<"c">>>>, diploma |-> Some(<<"B">>),
      diploma_ranking |-> 3, year_experience |-> 2,
      experiences |-> Some(<<<<"e">>, <<"f">>>>), languages |-> <<<<"l">>>>,
      certifications |-> <<<<"k">>>>] : w \in {Some(<<"w">>), None}}
    \cup
    {[name |-> Some(<<"m">>), website |-> Some(<< >>),
      phone_number |-> Some(<< >>), email |-> Some(<< >>),
      description |-> Some(<< >>), skills |-> << >>, diploma |-> Some(<< >>),
      diploma_ranking |-> 0, year_experience |-> 0,
      experiences |-> Some(<< >>), languages |-> << >>,
      certifications |-> << >>],
     CVData}

ScoringData(experience, skills, education, languages, job_fit, summary) ==
    {<<"experience", Frac(experience, 1)>>, <<"skills", Frac(skills, 1)>>,
     <<"education", Frac(education, 1)>>, <<"languages", Frac(languages, 1)>>,
     <<"job_fit", Frac(job_fit, 1)>>,
     <<"score_comments", <<<<"c">>>>>>, <<"strengths", <<<<"s">>>>>>,
     <<"weaknesses", << >>>>, <<"missing_skills", <<<<"b">>>>>>,
     <<"summary", summary>>}

\* What the adjustment model may return (result.dict()); no field of
\* ScoringData bounds a score.
ScoringDataSet ==
    {ScoringData(80, 90, 70, 60, 85, <<"o", "k">>),
     ScoringData(150, 100, 100, 100, 100, <<"o", "k">>),
     ScoringData(0 - 40, 0, 0, 0, 0, <<"o", "k">>),
     ScoringData(80, 90, 70, 60, 85, Unencodable)}

\* GlobalScorer.weights
weights ==
    {<<"experience", Frac(25, 100)>>, <<"skills", Frac(35, 100)>>,
     <<"education", Frac(10, 100)>>, <<"languages", Frac(10, 100)>>,
     <<"job_fit", Frac(20, 100)>>}

\* --------------------------------------------------- the raw text extractor
\* Every page joined, the pages with no text included.
_extract_raw_pdf_all_pages(file) == Strip(Join(<<"\n">>, file.texts))

_extract_raw_pdf(file) ==
    LET raw_text == SelectSeq(file.texts, LAMBDA t : t # << >>)
    IN Strip(Join(<<"\n">>, raw_text))

_extract_raw_docx(file) == Strip(file.texts[1])

\* Every suffix handed to the Word reader.
extract_raw_any_suffix(file) ==
    LET raw_text ==
            IF file.suffix \in {".pdf", ".PDF"}
            THEN _extract_raw_pdf(file)
            ELSE _extract_raw_docx(file)
    IN IF raw_text = << >>
       THEN [ok |-> FALSE, value |-> << >>, exc |-> "ValueError"]
       ELSE [ok |-> TRUE, value |-> raw_text, exc |-> ""]

extract_raw(file) ==
    LET raw_text ==
            IF file.suffix \in {".docx", ".doc", ".DOCX", ".DOC"}
            THEN _extract_raw_docx(file)
            ELSE IF file.suffix \in {".pdf", ".PDF"}
            THEN _extract_raw_pdf(file)
            ELSE << >>
    IN IF raw_text = << >>
       THEN [ok |-> FALSE, value |-> << >>, exc |-> "ValueError"]
       ELSE [ok |-> TRUE, value |-> raw_text, exc |-> ""]

\* ------------------------------------------- the scoring methods, one by one
ReqChars == {"a", "b", "A", " ", ","}
SkillWords == {<< >>, <<"a">>, <<"A">>, <<"b">>, <<" ", "a">>}

\* Extractor.__init__
NewExtractor ==
    [name |-> None, website |-> None, phone_number |-> None, email |-> None,
     description |-> None, skills |-> << >>, diploma |-> None,
     diploma_ranking |-> None,
     year_experience |-> None, experiences |-> Some(<< >>),
     languages |-> << >>, certifications |-> << >>, raw_text |-> None]

PlainOffer ==
    [required_experience |-> 0, required_skills |-> << >>,
     required_diploma_ranking |-> None]

ExperienceInputs ==
    {[fn |-> "_score_experience",
      offer |-> [PlainOffer EXCEPT !.required_experience = r],
      extractor |-> [NewExtractor EXCEPT !.year_experience = y]] :
        r \in (-1)..MaxYears, y \in Opt((-1)..MaxYears)}

SkillInputs ==
    {[fn |-> "_score_skills",
      offer |-> [PlainOffer EXCEPT !.required_skills = r],
      extractor |-> [NewExtractor EXCEPT !.skills = c]] :
        r \in StrUpTo(ReqChars, MaxReqLen), c \in SeqUpTo(SkillWords, MaxSkills)}

DiplomaInputs ==
    {[fn |-> "_score_diploma",
      offer |-> [PlainOffer EXCEPT !.required_diploma_ranking = r],
      extractor |-> [NewExtractor EXCEPT !.diploma_ranking = d]] :
        r \in Opt((-1)..MaxRank), d \in Opt((-1)..MaxRank)}

DeterministicInputs ==
    {[fn |-> "compute_deterministic_score",
      offer |-> [required_experience |-> re, required_skills |-> rs,
                 required_diploma_ranking |-> rd],
      extractor |-> [NewExtractor EXCEPT !.year_experience = y,
                                         !.skills = c,
                                         !.diploma_ranking = d]] :
        re \in {0, MaxYears}, rs \in {<< >>, <<"a", ",", "b">>},
        rd \in {None, Some(MaxRank)},
        y \in {None, Some(0), Some(MaxYears - 1)},
        c \in {<< >>, <<<<"a">>, <<"A">>, <<"b">>>>},
        d \in {None, Some(0), Some(MaxRank)}}

\* The files handed to extract_raw: the text of each page of a PDF, or of the
\* whole of a Word document.
MaxPages == 3
PageTexts == {<< >>, <<"x">>, <<"y", " ">>, <<" ">>, <<"\n", "z">>}

FileInputs ==
    {[suffix |-> x, texts |-> t] :
         x \in {".pdf", ".PDF"}, t \in SeqUpTo(PageTexts, MaxPages)}
    \cup {[suffix |-> x, texts |-> <<t>>] :
              x \in {".docx", ".doc", ".DOCX", ".DOC", ".txt", ".Pdf"},
              t \in PageTexts}

NoScorer ==
    [fn |-> "", offer |-> PlainOffer, extractor |-> NewExtractor,
     returned |-> FALSE, result |-> Ok(Frac(0, 1)), deterministic_score |-> {},
     file |-> [suffix |-> "", texts |-> << >>],
     raw_text |-> [ok |-> FALSE, value |-> << >>, exc |-> ""]]

ScoreInit ==
    /\ provider = "openai"
    /\ cvs = << >>
    /\ matchings = {}
    /\ now = 0
    /\ run = << >>
    /\ history = << >>
    /\ \/ \E i \in ExperienceInputs \cup SkillInputs \cup DiplomaInputs
                     \cup DeterministicInputs :
              scorer = [NoScorer EXCEPT !.fn = i.fn, !.offer = i.offer,
                                        !.extractor = i.extractor]
       \/ \E file \in FileInputs :
              scorer = [NoScorer EXCEPT !.fn = "extract_raw", !.file = file]

ScoreFrame == UNCHANGED <<provider, cvs, matchings, now, run, history>>

ScoreExperience ==
    /\ scorer.fn = "_score_experience" /\ ~scorer.returned
    /\ scorer' = [scorer EXCEPT
           !.returned = TRUE,
           !.result = _score_experience(scorer.offer, scorer.extractor)]
    /\ ScoreFrame

ScoreSkills ==
    /\ scorer.fn = "_score_skills" /\ ~scorer.returned
    /\ scorer' = [scorer EXCEPT
           !.returned = TRUE,
           !.result = _score_skills(scorer.offer, scorer.extractor)]
    /\ ScoreFrame

ScoreDiploma ==
    /\ scorer.fn = "_score_diploma" /\ ~scorer.returned
    /\ scorer' = [scorer EXCEPT
           !.returned = TRUE,
           !.result = _score_diploma(scorer.offer, scorer.extractor)]
    /\ ScoreFrame

ComputeDeterministicScore ==
    /\ scorer.fn = "compute_deterministic_score" /\ ~scorer.returned
    /\ LET r == compute_deterministic_score(scorer.offer, scorer.extractor)
       IN scorer' = [scorer EXCEPT
              !.returned = TRUE,
              !.result = [ok |-> r.ok, value |-> Frac(0, 1), exc |-> r.exc],
              !.deterministic_score = r.value]
    /\ ScoreFrame

ExtractRaw ==
    /\ scorer.fn = "extract_raw" /\ ~scorer.returned
    /\ scorer' = [scorer EXCEPT !.returned = TRUE,
                                !.raw_text = extract_raw(scorer.file)]
    /\ ScoreFrame

ScoreNext ==
    \/ ExtractRaw
    \/ ScoreExperience
    \/ ScoreSkills
    \/ ScoreDiploma
    \/ ComputeDeterministicScore

SpecScore == ScoreInit /\ [][ScoreNext]_vars

\* ------------------------------------------------------ the scoring request
\* Extractor.to_dict: the candidate mapping of the adjustment prompt.
to_dict(extractor) ==
    IF extractor.experiences = None
    THEN [ok |-> FALSE, value |-> {}, exc |-> "TypeError"]
    ELSE [ok |-> TRUE, exc |-> "",
          value |-> {<<"description", extractor.description>>,
                     <<"skills", Some(Join(<<",", " ">>, extractor.skills))>>,
                     <<"diploma", extractor.diploma>>,
                     <<"year_experience", extractor.year_experience>>,
                     <<"experiences",
                       Some(Join(<<",", " ">>, extractor.experiences[1]))>>,
                     <<"languages",
                       Some(Join(<<",", " ">>, extractor.languages))>>,
                     <<"certifications",
                       Some(Join(<<",", " ">>, extractor.certifications))>>}]

\* Extractor.save: the row after cv.save().
save(cv, extractor) ==
    [cv EXCEPT !.name = extractor.name,
               !.website = extractor.website,
               !.phone_number = extractor.phone_number,
               !.email = extractor.email,
               !.description = extractor.description,
               !.skills = Join(<<",", " ">>, extractor.skills),
               !.diploma = extractor.diploma,
               !.diploma_ranking = extractor.diploma_ranking,
               !.year_experience = extractor.year_experience,
               !.experiences = extractor.experiences,
               !.languages = Join(<<",", " ">>, extractor.languages),
               !.certifications = extractor.certifications,
               !.raw_text = extractor.raw_text]

\* cv.save() on a null in a column declared without null=True.
IntegrityError(extractor) ==
    \/ extractor.name = None
    \/ extractor.website = None
    \/ extractor.phone_number = None
    \/ extractor.email = None
    \/ extractor.description = None
    \/ extractor.diploma = None
    \/ extractor.experiences = None

\* The weights applied to the first two scores the other way round.
global_score_swapped(results) ==
    FracAdd(FracMul(Get(weights, "skills"), Get(results, "experience")),
    FracAdd(FracMul(Get(weights, "experience"), Get(results, "skills")),
    FracAdd(FracMul(Get(weights, "education"), Get(results, "education")),
    FracAdd(FracMul(Get(weights, "languages"), Get(results, "languages")),
            FracMul(Get(weights, "job_fit"), Get(results, "job_fit"))))))

global_score(results) ==
    FracAdd(FracMul(Get(weights, "experience"), Get(results, "experience")),
    FracAdd(FracMul(Get(weights, "skills"), Get(results, "skills")),
    FracAdd(FracMul(Get(weights, "education"), Get(results, "education")),
    FracAdd(FracMul(Get(weights, "languages"), Get(results, "languages")),
            FracMul(Get(weights, "job_fit"), Get(results, "job_fit"))))))

Matching(rows, job_offer, cv) ==
    {m \in rows : m.job_offer = job_offer /\ m.cv = cv}

\* CVMatching.objects.create in the place of update_or_create.
create(rows, job_offer, cv, defaults) ==
    rows \cup {[id |-> Cardinality(rows) + 1, job_offer |-> job_offer,
                cv |-> cv, score |-> defaults.score,
                score_description |-> defaults.score_description,
                evaluated_at |-> defaults.evaluated_at]}

\* CVMatching.objects.update_or_create(job_offer=, cv=, defaults=): the rows
\* afterwards (one row matches at most here; see UpdateOrCreate).
update_or_create(rows, job_offer, cv, defaults) ==
    IF Matching(rows, job_offer, cv) = {}
    THEN rows \cup {[id |-> Cardinality(rows) + 1, job_offer |-> job_offer,
                     cv |-> cv, score |-> defaults.score,
                     score_description |-> defaults.score_description,
                     evaluated_at |-> defaults.evaluated_at]}
    ELSE {IF m \in Matching(rows, job_offer, cv)
          THEN [m EXCEPT !.score = defaults.score,
                         !.score_description = defaults.score_description,
                         !.evaluated_at = defaults.evaluated_at]
          ELSE m : m \in rows}

NoError == [stage |-> "", exc |-> ""]

\* A worker with no request.
Idle ==
    [pc |-> "idle", job_offer |-> 0, cv |-> 0, extractor |-> NewExtractor,
     llm |-> FALSE, deterministic_score |-> {}, candidate_data |-> {},
     score_value |-> Frac(0, 1), score_details |-> {},
     serialized_details |-> << >>, error |-> NoError, events |-> << >>,
     before |-> {}, id |-> 0, cv_before |-> NewCV(CVFiles[1]),
     result |-> CVData, found |-> {}, evaluation_time |-> 0]

\* The request ends with an exception raised at the given stage.
Failed(r, stage, exc) ==
    [r EXCEPT !.pc = "failed", !.error = [stage |-> stage, exc |-> exc]]

\* compute_score has returned (score_value, score_details): json.dumps.
Scored(r, score_value, score_details) ==
    LET serialized_details == json_dumps(score_details)
        s == [r EXCEPT !.score_value = score_value,
                       !.score_details = score_details,
                       !.events = Append(r.events, "json.dumps")]
    IN IF ~serialized_details.ok
       THEN Failed(s, "json.dumps", "ValidationError")
       ELSE [s EXCEPT !.pc = "update_or_create",
                      !.serialized_details = serialized_details.value]

MaxRuns == 2

Init ==
    /\ provider \in Providers
    /\ cvs = [c \in CVIds |-> NewCV(CVFiles[c])]
    /\ matchings = {}
    /\ now = 0
    /\ run = [w \in Workers |-> Idle]
    /\ history = << >>
    /\ scorer = NoScorer

\* CVViewSet.score_job_offer: a request for (job_offer, cv) reaches a worker;
\* requests are served one at a time.
ScoreJobOffer(w, job_offer, cv) ==
    /\ now < MaxRuns
    /\ \A v \in Workers : run[v].pc = "idle"
    /\ now' = now + 1
    /\ run' = [run EXCEPT ![w] =
           [Idle EXCEPT !.pc = "semantic_extract", !.job_offer = job_offer,
                        !.cv = cv, !.before = matchings, !.id = now + 1,
                        !.cv_before = cvs[cv]]]
    /\ UNCHANGED <<provider, cvs, matchings, history, scorer>>

\* Extractor.semantic_extract up to the model call: the provider switch and
\* extract_raw.
SemanticExtract(w) ==
    LET r == run[w]
        raw_text == extract_raw(cvs[r.cv].file)
    IN /\ r.pc = "semantic_extract"
       /\ run' = [run EXCEPT ![w] =
              IF provider \notin SupportedProviders
              THEN [r EXCEPT !.pc = "compute_score", !.llm = FALSE]
              ELSE IF ~raw_text.ok
              THEN Failed(r, "extract_raw", raw_text.exc)
              ELSE [r EXCEPT !.pc = "invoke_extraction",
                             !.extractor.raw_text = Some(raw_text.value),
                             !.events = Append(r.events, "extract_raw")]]
       /\ UNCHANGED <<provider, cvs, matchings, now, history, scorer>>

\* semantic_extract, lines 164-174: the fields taken over from the CVData the
\* model returned.
assign(extractor, result) ==
    [extractor EXCEPT !.name = result.name,
                      !.website = result.website,
                      !.phone_number = result.phone_number,
                      !.email = result.email,
                      !.description = result.description,
                      !.skills = result.skills,
                      !.diploma = result.diploma,
                      !.diploma_ranking = Some(result.diploma_ranking),
                      !.year_experience = Some(result.year_experience),
                      !.experiences = result.experiences,
                      !.languages = result.languages]

\* The model call made again after it raised.
ExtractionRaisesAndRetries(w) ==
    LET r == run[w]
    IN /\ r.pc = "invoke_extraction"
       /\ run' = [run EXCEPT ![w] =
              [r EXCEPT !.events = Append(r.events, "invoke CVData")]]
       /\ UNCHANGED <<provider, cvs, matchings, now, history, scorer>>

\* The fields read so far saved on the CV row before the model call raises.
ExtractionRaisesAfterSave(w) ==
    LET r == run[w]
    IN /\ r.pc = "invoke_extraction"
       /\ cvs' = [cvs EXCEPT ![r.cv] = save(cvs[r.cv], r.extractor)]
       /\ run' = [run EXCEPT ![w] =
              Failed([r EXCEPT !.events = Append(r.events, "invoke CVData")],
                     "invoke CVData", "ValueError")]
       /\ UNCHANGED <<provider, matchings, now, history, scorer>>

\* structured_llm.invoke raises in semantic_extract.
ExtractionRaises(w) ==
    LET r == run[w]
    IN /\ r.pc = "invoke_extraction"
       /\ run' = [run EXCEPT ![w] =
              Failed([r EXCEPT !.events = Append(r.events, "invoke CVData")],
                     "invoke CVData", "ValueError")]
       /\ UNCHANGED <<provider, cvs, matchings, now, history, scorer>>

\* structured_llm.invoke returns a CVData: the fields are taken over and
\* saved on the CV row, unless the row is refused; GlobalScorer.__init__ then
\* builds its own client.
ExtractionReturns(w, result) ==
    LET r == run[w]
        extractor == assign(r.extractor, result)
        s == [r EXCEPT !.extractor = extractor, !.result = result,
                       !.events = Append(r.events, "invoke CVData")]
    IN /\ r.pc = "invoke_extraction"
       /\ IF IntegrityError(extractor)
          THEN /\ run' = [run EXCEPT ![w] = Failed(s, "save", "ValueError")]
               /\ UNCHANGED cvs
          ELSE /\ run' = [run EXCEPT ![w] =
                      [s EXCEPT !.pc = "compute_score", !.llm = TRUE]]
               /\ cvs' = [cvs EXCEPT ![r.cv] = save(cvs[r.cv], extractor)]
       /\ UNCHANGED <<provider, matchings, now, history, scorer>>

\* compute_score reading the candidate's years and diploma rank from the CV
\* row.
ComputeScoreFromRow(w) ==
    LET r == run[w]
        stored == [r.extractor EXCEPT
                      !.year_experience = cvs[r.cv].year_experience,
                      !.diploma_ranking = cvs[r.cv].diploma_ranking]
        scores == compute_deterministic_score(JobOffers[r.job_offer], stored)
        candidate_data == to_dict(stored)
        s == [r EXCEPT !.deterministic_score = scores.value,
                       !.events = Append(r.events,
                                         "compute_deterministic_score")]
    IN /\ r.pc = "compute_score"
       /\ run' = [run EXCEPT ![w] =
              IF ~scores.ok
              THEN Failed(s, "compute_deterministic_score", scores.exc)
              ELSE IF ~r.llm
              THEN Scored(s, Frac(0, 1), {})
              ELSE IF ~candidate_data.ok
              THEN Failed(s, "to_dict", candidate_data.exc)
              ELSE [s EXCEPT !.pc = "invoke_adjustment",
                             !.candidate_data = candidate_data.value]]
       /\ UNCHANGED <<provider, cvs, matchings, now, history, scorer>>

\* GlobalScorer.compute_score up to the model call.
ComputeScore(w) ==
    LET r == run[w]
        scores == compute_deterministic_score(JobOffers[r.job_offer],
                                              r.extractor)
        candidate_data == to_dict(r.extractor)
        s == [r EXCEPT !.deterministic_score = scores.value,
                       !.events = Append(r.events,
                                         "compute_deterministic_score")]
    IN /\ r.pc = "compute_score"
       /\ run' = [run EXCEPT ![w] =
              IF ~scores.ok
              THEN Failed(s, "compute_deterministic_score", scores.exc)
              ELSE IF ~r.llm
              THEN Scored(s, Frac(0, 1), {})
              ELSE IF ~candidate_data.ok
              THEN Failed(s, "to_dict", candidate_data.exc)
              ELSE [s EXCEPT !.pc = "invoke_adjustment",
                             !.candidate_data = candidate_data.value]]
       /\ UNCHANGED <<provider, cvs, matchings, now, history, scorer>>

\* A provisional row written before the model call, which then raises.
AdjustmentRaisesAfterWrite(w) ==
    LET r == run[w]
    IN /\ r.pc = "invoke_adjustment"
       /\ matchings' = update_or_create(matchings, r.job_offer, r.cv,
              [score |-> Frac(0, 1), score_description |-> << >>,
               evaluated_at |-> now])
       /\ run' = [run EXCEPT ![w] =
              Failed([r EXCEPT
                         !.events = Append(r.events, "invoke ScoringData")],
                     "invoke ScoringData", "Exception")]
       /\ UNCHANGED <<provider, cvs, now, history, scorer>>

\* The CV row put back as it was when the model call raises.
AdjustmentRaisesRollingBack(w) ==
    LET r == run[w]
    IN /\ r.pc = "invoke_adjustment"
       /\ cvs' = [cvs EXCEPT ![r.cv] = r.cv_before]
       /\ run' = [run EXCEPT ![w] =
              Failed([r EXCEPT
                         !.events = Append(r.events, "invoke ScoringData")],
                     "invoke ScoringData", "Exception")]
       /\ UNCHANGED <<provider, matchings, now, history, scorer>>

\* structured_llm.invoke raises in compute_score.
AdjustmentRaises(w) ==
    LET r == run[w]
    IN /\ r.pc = "invoke_adjustment"
       /\ run' = [run EXCEPT ![w] =
              Failed([r EXCEPT
                         !.events = Append(r.events, "invoke ScoringData")],
                     "invoke ScoringData", "Exception")]
       /\ UNCHANGED <<provider, cvs, matchings, now, history, scorer>>

\* structured_llm.invoke returns a ScoringData: the weighted sum, then
\* json.dumps of the details.
AdjustmentReturns(w, results) ==
    LET r == run[w]
    IN /\ r.pc = "invoke_adjustment"
       /\ run' = [run EXCEPT ![w] =
              Scored([r EXCEPT
                         !.events = Append(r.events, "invoke ScoringData")],
                     global_score(results), results)]
       /\ UNCHANGED <<provider, cvs, matchings, now, history, scorer>>

\* CVMatching.objects.update_or_create, and the response.
UpdateOrCreate(w) ==
    LET r == run[w]
        defaults == [score |-> r.score_value,
                     score_description |-> r.serialized_details,
                     evaluated_at |-> now]
    IN /\ r.pc = "update_or_create"
       /\ IF Cardinality(Matching(matchings, r.job_offer, r.cv)) > 1
          THEN /\ run' = [run EXCEPT ![w] =
                      Failed(r, "update_or_create", "MultipleObjectsReturned")]
               /\ UNCHANGED <<matchings, history>>
          ELSE /\ matchings' = update_or_create(matchings, r.job_offer, r.cv,
                                                defaults)
               /\ run' = [run EXCEPT ![w] =
                      [r EXCEPT !.pc = "done",
                                !.events = Append(r.events,
                                                  "update_or_create")]]
               /\ history' = Append(history,
                      [job_offer |-> r.job_offer, cv |-> r.cv,
                       score |-> r.score_value,
                       score_details |-> r.score_details, id |-> r.id])
       /\ UNCHANGED <<provider, cvs, now, scorer>>

\* The response (200, or the error) leaves the worker.
Respond(w) ==
    /\ run[w].pc \in {"done", "failed"}
    /\ run' = [run EXCEPT ![w] = Idle]
    /\ UNCHANGED <<provider, cvs, matchings, now, history, scorer>>

Next ==
    \/ \E w \in Workers, job_offer \in Jobs, cv \in CVIds :
           ScoreJobOffer(w, job_offer, cv)
    \/ \E w \in Workers : SemanticExtract(w)
    \/ \E w \in Workers : ExtractionRaises(w)
    \/ \E w \in Workers, result \in CVDataSet : ExtractionReturns(w, result)
    \/ \E w \in Workers : ComputeScore(w)
    \/ \E w \in Workers : AdjustmentRaises(w)
    \/ \E w \in Workers, results \in ScoringDataSet :
           AdjustmentReturns(w, results)
    \/ \E w \in Workers : UpdateOrCreate(w)
    \/ \E w \in Workers : Respond(w)

Spec == Init /\ [][Next]_vars

\* ------------------------------------------------------- overlapping requests
\* The CV rows, the CVMatching rows and the runs returned once a request for
\* (job 1, CV 1) has been served alone.
ServedOnce ==
    LET result == CHOOSE d \in CVDataSet :
                      d.year_experience = 2 /\ d.website # None
        results == CHOOSE d \in ScoringDataSet :
                       /\ Get(d, "experience") = Frac(80, 1)
                       /\ Get(d, "summary") # Unencodable
        extractor == assign([NewExtractor EXCEPT !.raw_text =
                                Some(extract_raw(CVFiles[1]).value)], result)
        defaults == [score |-> global_score(results),
                     score_description |-> json_dumps(results).value,
                     evaluated_at |-> 0]
    IN [cvs |-> [c \in CVIds |->
                    IF c = 1 THEN save(NewCV(CVFiles[c]), extractor)
                    ELSE NewCV(CVFiles[c])],
        matchings |-> update_or_create({}, 1, 1, defaults),
        history |-> <<[job_offer |-> 1, cv |-> 1,
                       score |-> defaults.score,
                       score_details |-> results, id |-> 0]>>]

\* Two workers, each about to take one request, over a fresh store or over
\* the store left by an earlier request.
InitOverlapping ==
    /\ provider \in Providers
    /\ now = 0
    /\ run = [w \in Workers |-> Idle]
    /\ scorer = NoScorer
    /\ \/ /\ cvs = [c \in CVIds |-> NewCV(CVFiles[c])]
          /\ matchings = {}
          /\ history = << >>
       \/ /\ cvs = ServedOnce.cvs
          /\ matchings = ServedOnce.matchings
          /\ history = ServedOnce.history

\* CVViewSet.score_job_offer on a free worker, whatever the other is doing.
ScoreJobOfferOverlapping(w, job_offer, cv) ==
    /\ run[w].pc = "idle"
    /\ now' = now + 1
    /\ run' = [run EXCEPT ![w] =
           [Idle EXCEPT !.pc = "semantic_extract", !.job_offer = job_offer,
                        !.cv = cv, !.before = matchings, !.id = now + 1,
                        !.cv_before = cvs[cv]]]
    /\ UNCHANGED <<provider, cvs, matchings, history, scorer>>

\* evaluation_time = timezone.now(): the clock is read before update_or_create
\* is entered, and other requests may be served in between.
TimezoneNow(w) ==
    LET r == run[w]
    IN /\ r.pc = "update_or_create"
       /\ run' = [run EXCEPT ![w] =
              [r EXCEPT !.pc = "lookup", !.evaluation_time = now]]
       /\ UNCHANGED <<provider, cvs, matchings, now, history, scorer>>

\* update_or_create, first statement: the rows of the pair are looked up.
\* CVMatching declares no uniqueness over (job_offer, cv), so nothing keeps
\* another request from looking up the same pair before this one writes.
UpdateOrCreateGet(w) ==
    LET r == run[w]
        found == {m.id : m \in Matching(matchings, r.job_offer, r.cv)}
    IN /\ r.pc = "lookup"
       /\ run' = [run EXCEPT ![w] =
              IF Cardinality(found) > 1
              THEN Failed(r, "update_or_create", "MultipleObjectsReturned")
              ELSE [r EXCEPT !.pc = "write", !.found = found]]
       /\ UNCHANGED <<provider, cvs, matchings, now, history, scorer>>

\* update_or_create, second statement: the row found is updated with the
\* time read before the lookup, or a row is created when none was found
\* (auto_now_add stamps it at the insert); then the response is built.
UpdateOrCreateWrite(w) ==
    LET r == run[w]
        defaults == [score |-> r.score_value,
                     score_description |-> r.serialized_details,
                     evaluated_at |-> r.evaluation_time]
    IN /\ r.pc = "write"
       /\ matchings' =
              IF r.found = {}
              THEN matchings \cup
                       {[id |-> Cardinality(matchings) + 1,
                         job_offer |-> r.job_offer, cv |-> r.cv,
                         score |-> defaults.score,
                         score_description |-> defaults.score_description,
                         evaluated_at |-> now]}
              ELSE {IF m.id \in r.found
                    THEN [m EXCEPT
                             !.score = defaults.score,
                             !.score_description = defaults.score_description,
                             !.evaluated_at = defaults.evaluated_at]
                    ELSE m : m \in matchings}
       /\ run' = [run EXCEPT ![w] =
              [r EXCEPT !.pc = "done",
                        !.events = Append(r.events, "update_or_create")]]
       /\ history' = Append(history,
              [job_offer |-> r.job_offer, cv |-> r.cv,
               score |-> r.score_value,
               score_details |-> r.score_details, id |-> r.id])
       /\ UNCHANGED <<provider, cvs, now, scorer>>

NextOverlapping ==
    \/ \E w \in Workers, job_offer \in Jobs, cv \in CVIds :
           ScoreJobOfferOverlapping(w, job_offer, cv)
    \/ \E w \in Workers : SemanticExtract(w)
    \/ \E w \in Workers : ExtractionRaises(w)
    \/ \E w \in Workers, result \in CVDataSet : ExtractionReturns(w, result)
    \/ \E w \in Workers : ComputeScore(w)
    \/ \E w \in Workers : AdjustmentRaises(w)
    \/ \E w \in Workers, results \in ScoringDataSet :
           AdjustmentReturns(w, results)
    \/ \E w \in Workers : TimezoneNow(w)
    \/ \E w \in Workers : UpdateOrCreateGet(w)
    \/ \E w \in Workers : UpdateOrCreateWrite(w)

SpecOverlapping == InitOverlapping /\ [][NextOverlapping]_vars

\* --------------------------------------------- claims on the scoring methods
Hundred == Frac(100, 1)

\* C5: for a candidate with year_experience >= 0, _score_experience returns
\* 100 when required_experience <= 0, 100 when year_experience >=
\* required_experience (equality included), and otherwise exactly
\* year_experience / required_experience * 100; 2 of 4 years gives 50.
ExperienceScoreRule ==
    LET y == scorer.extractor.year_experience
        r == scorer.offer.required_experience
        v == scorer.result.value
    IN (scorer.fn = "_score_experience" /\ scorer.returned
        /\ y # None /\ y[1] >= 0)
       => /\ scorer.result.ok
          /\ r <= 0 => v = Hundred
          /\ (r > 0 /\ y[1] >= r) => v = Hundred
          /\ (r > 0 /\ y[1] < r) => v.num * r = y[1] * 100 * v.den
          /\ (y[1] = 2 /\ r = 4) => v = [num |-> 50, den |-> 1]

ExperienceScoreRuleWitness ==
    /\ scorer.fn = "_score_experience" /\ scorer.returned
    /\ scorer.extractor.year_experience = Some(2)
    /\ scorer.offer.required_experience = 4
    /\ scorer.result = Ok([num |-> 50, den |-> 1])

\* C6: for a non-empty required-skills string, _score_skills returns
\* |C \cap R| / |C| * 100, C the lower-cased candidate skills and R the
\* comma-split, trimmed, lower-cased required skills, and 0 when C is empty;
\* so a candidate holding every required skill and one more scores below 100.
SkillScoreRule ==
    LET C == {Lower(k) : k \in Range(scorer.extractor.skills)}
        R == {Lower(Strip(k)) :
                  k \in Range(Split(scorer.offer.required_skills, ","))}
        v == scorer.result.value
    IN (scorer.fn = "_score_skills" /\ scorer.returned
        /\ scorer.offer.required_skills # << >>)
       => /\ scorer.result.ok
          /\ C = {} => v = Frac(0, 1)
          /\ C # {} => v.num * Cardinality(C)
                           = Cardinality(C \cap R) * 100 * v.den
          /\ (R \subseteq C /\ C \ R # {}) => v.num < 100 * v.den
          /\ (scorer.extractor.skills = <<<<"a">>, <<"b">>>>
              /\ scorer.offer.required_skills = <<"A", ",", " ">>)
             => v = [num |-> 50, den |-> 1]

SkillScoreRuleWitness ==
    LET C == {Lower(k) : k \in Range(scorer.extractor.skills)}
        R == {Lower(Strip(k)) :
                  k \in Range(Split(scorer.offer.required_skills, ","))}
    IN /\ scorer.fn = "_score_skills" /\ scorer.returned
       /\ scorer.offer.required_skills = <<" ", "A">>
       /\ scorer.extractor.skills = <<<<"b">>, <<"a">>>>
       /\ R \subseteq C /\ C \ R # {}
       /\ scorer.result.ok
       /\ scorer.result.value.num < 100 * scorer.result.value.den

\* C7: when required_skills is empty or blank (only whitespace),
\* _score_skills returns 100 for every candidate skill list.
BlankRequiredSkillsScoreHundred ==
    (scorer.fn = "_score_skills" /\ scorer.returned
     /\ Strip(scorer.offer.required_skills) = << >>)
    => scorer.result = Ok(Hundred)

\* C8: for a candidate diploma rank >= 0, _score_diploma returns 100 when the
\* required rank is unset or 0, 100 when the candidate rank >= the required
\* rank, and otherwise candidate_rank / required_rank * 100 (3 of 5 gives
\* 60); it never divides by zero.
DiplomaScoreRule ==
    LET d == scorer.extractor.diploma_ranking
        r == scorer.offer.required_diploma_ranking
        v == scorer.result.value
    IN (scorer.fn = "_score_diploma" /\ scorer.returned
        /\ d # None /\ d[1] >= 0)
       => /\ scorer.result.ok
          /\ (r = None \/ r = Some(0)) => v = Hundred
          /\ (r # None /\ d[1] >= r[1]) => v = Hundred
          /\ (r # None /\ d[1] < r[1]) => v.num * r[1] = d[1] * 100 * v.den
          /\ (d = Some(3) /\ r = Some(5)) => v = [num |-> 60, den |-> 1]

DiplomaScoreRuleWitness ==
    /\ scorer.fn = "_score_diploma" /\ scorer.returned
    /\ scorer.extractor.diploma_ranking = Some(3)
    /\ scorer.offer.required_diploma_ranking = Some(5)
    /\ scorer.result = Ok([num |-> 60, den |-> 1])


InRange(v) == FracLe(Frac(0, 1), v) /\ FracLe(v, Hundred)

\* C14: for every job offer and every candidate with year_experience >= 0
\* and diploma_ranking >= 0, each of the three scores of
\* compute_deterministic_score, and of the method computing it, is returned
\* and lies in [0, 100].
DeterministicScoresInRange ==
    LET y == scorer.extractor.year_experience
        d == scorer.extractor.diploma_ranking
        Candidate == y # None /\ y[1] >= 0 /\ d # None /\ d[1] >= 0
    IN /\ (scorer.fn = "_score_experience" /\ scorer.returned
           /\ y # None /\ y[1] >= 0)
          => scorer.result.ok /\ InRange(scorer.result.value)
       /\ (scorer.fn = "_score_skills" /\ scorer.returned)
          => scorer.result.ok /\ InRange(scorer.result.value)
       /\ (scorer.fn = "_score_diploma" /\ scorer.returned
           /\ d # None /\ d[1] >= 0)
          => scorer.result.ok /\ InRange(scorer.result.value)
       /\ (scorer.fn = "compute_deterministic_score" /\ scorer.returned
           /\ Candidate)
          => /\ scorer.result.ok
             /\ {p[1] : p \in scorer.deterministic_score}
                    = {"experience_score", "skill_score", "diploma_score"}
             /\ \A p \in scorer.deterministic_score : InRange(p[2])

DeterministicScoresInRangeWitness ==
    /\ scorer.fn = "compute_deterministic_score" /\ scorer.returned
    /\ scorer.extractor.year_experience = Some(MaxYears - 1)
    /\ scorer.offer.required_experience = MaxYears
    /\ scorer.result.ok
    /\ Get(scorer.deterministic_score, "experience_score")
           = Frac((MaxYears - 1) * 100, MaxYears)
    /\ Get(scorer.deterministic_score, "skill_score") = Hundred
    /\ Get(scorer.deterministic_score, "diploma_score") = Frac(0, 1)

\* ------------------------------------------------ claims on the scoring run
\* The request has left compute_score, by a return or by an exception.
Finished(r) == r.pc \in {"update_or_create", "done", "failed"}

ModelCalls(r) ==
    {i \in DOMAIN r.events :
         r.events[i] \in {"invoke CVData", "invoke ScoringData"}}

RecognizedSuffixes == {".docx", ".doc", ".DOCX", ".DOC", ".pdf", ".PDF"}

\* C1: with no supported provider configured, a scoring run returns the
\* final score 0.0 and an empty detail payload and raises no exception.
NoProviderScoresZero ==
    \A w \in Workers :
        (provider \notin SupportedProviders /\ Finished(run[w]))
        => /\ run[w].pc # "failed"
           /\ run[w].score_value = Frac(0, 1)
           /\ run[w].score_details = {}

\* C2 as stated: a run on a CV whose suffix is not recognized fails with the
\* raw text extractor's error and invokes no model, whatever the provider.
UnsupportedFormatFailsAnyProvider ==
    \A w \in Workers :
        (run[w].pc # "idle"
         /\ cvs[run[w].cv].file.suffix \notin RecognizedSuffixes)
        => /\ ModelCalls(run[w]) = {}
           /\ run[w].pc # "done"
           /\ run[w].pc = "failed" => run[w].error.stage = "extract_raw"

\* C2 amended: a run on a CV whose suffix is not recognized invokes no model,
\* whatever the provider; with a supported provider it fails in extract_raw
\* before anything else happens.
UnsupportedFormatFails ==
    \A w \in Workers :
        (run[w].pc # "idle"
         /\ cvs[run[w].cv].file.suffix \notin RecognizedSuffixes)
        => /\ ModelCalls(run[w]) = {}
           /\ provider \in SupportedProviders
              => /\ run[w].pc \in {"semantic_extract", "failed"}
                 /\ run[w].pc = "failed"
                    => run[w].error = [stage |-> "extract_raw",
                                       exc |-> "ValueError"]

UnsupportedFormatFailsWitness ==
    \E w \in Workers :
        /\ provider \in SupportedProviders
        /\ run[w].pc = "failed"
        /\ cvs[run[w].cv].file.suffix = ".txt"
        /\ run[w].error.stage = "extract_raw"
        /\ run[w].events = << >>

RunsOf(job_offer, cv) ==
    {i \in DOMAIN history :
         history[i].job_offer = job_offer /\ history[i].cv = cv}

Latest(S) == CHOOSE i \in S : \A k \in S : k <= i

\* C3: after any sequence of scoring runs served one after the other, there
\* is exactly one CVMatching row for each (job, cv) pair scored, none for the
\* others, and the row carries the score and the details of the latest run
\* of the pair that returned.
OneMatchingPerScoredPair ==
    \A job_offer \in Jobs, cv \in CVIds :
        LET rows == Matching(matchings, job_offer, cv)
            runs == RunsOf(job_offer, cv)
        IN IF runs = {} THEN rows = {}
           ELSE /\ Cardinality(rows) = 1
                /\ \A m \in rows :
                       /\ m.score = history[Latest(runs)].score
                       /\ get_score_details(m)
                              = history[Latest(runs)].score_details

OneMatchingPerScoredPairWitness ==
    /\ Len(history) = 2
    /\ history[1].job_offer = history[2].job_offer
    /\ history[1].cv = history[2].cv
    /\ history[1].score # history[2].score
    /\ Cardinality(matchings) = 1
    /\ \A m \in matchings : m.score = history[2].score

\* C4: when a scoring run fails, at any stage, the CVMatching rows are what
\* they were when the run began.
FailedRunLeavesMatchings ==
    \A w \in Workers : run[w].pc = "failed" => matchings = run[w].before

FailedRunLeavesMatchingsWitness ==
    \E w \in Workers :
        /\ run[w].pc = "failed"
        /\ run[w].error.stage \in {"invoke ScoringData", "json.dumps"}
        /\ matchings # {}
        /\ matchings = run[w].before

\* C9: when a model is configured and the adjustment call returns, the final
\* score is 0.25 experience + 0.35 skills + 0.10 education + 0.10 languages
\* + 0.20 job_fit of the five scores the model returned; 80, 90, 70, 60, 85
\* gives 81.5.
FinalScoreIsWeightedSum ==
    \A w \in Workers :
        LET r == run[w]
            v == r.score_value
            score(k) == Get(r.score_details, k).num
        IN (r.llm /\ (r.pc \in {"update_or_create", "done"}
                      \/ (r.pc = "failed" /\ r.error.stage = "json.dumps")))
           => /\ \A k \in {"experience", "skills", "education", "languages",
                           "job_fit"} : Get(r.score_details, k).den = 1
              /\ v.num * 100
                     = v.den * (25 * score("experience") + 35 * score("skills")
                                + 10 * score("education")
                                + 10 * score("languages")
                                + 20 * score("job_fit"))
              /\ (score("experience") = 80 /\ score("skills") = 90
                  /\ score("education") = 70 /\ score("languages") = 60
                  /\ score("job_fit") = 85)
                 => v = [num |-> 163, den |-> 2]

FinalScoreIsWeightedSumWitness ==
    \E w \in Workers :
        /\ run[w].pc = "done"
        /\ run[w].llm
        /\ Get(run[w].score_details, "experience") = Frac(80, 1)
        /\ run[w].score_value = [num |-> 163, den |-> 2]
        /\ \E m \in matchings : m.score = [num |-> 163, den |-> 2]

\* C10: every CVMatching row has its score in [0, 100], whatever the
\* adjustment model returns.
MatchingScoreInRange ==
    \A m \in matchings :
        FracLe(Frac(0, 1), m.score) /\ FracLe(m.score, Hundred)


\* C11: whenever compute_deterministic_score is about to run, the candidate's
\* year_experience and diploma_ranking are integers, never None, on every
\* path that reaches the scorer.
ScorerSeesIntegers ==
    \A w \in Workers :
        run[w].pc = "compute_score" =>
            /\ run[w].extractor.year_experience # None
            /\ run[w].extractor.diploma_ranking # None

\* The stages of semantic_extract that can raise.
ExtractionStages == {"extract_raw", "invoke CVData", "save"}

\* C12: a run whose semantic extraction raised (no raw text, the model call
\* raising, or a result the row cannot hold) has ended with an error and the
\* CV row is as it was when the run started.
FailedExtractionLeavesCV ==
    \A w \in Workers :
        LET r == run[w]
        IN (r.error.stage \in ExtractionStages \/
            (r.pc \in {"semantic_extract", "invoke_extraction"}))
           => /\ r.error.stage \in ExtractionStages => r.pc = "failed"
              /\ cvs[r.cv] = r.cv_before
              /\ ~r.llm

\* A run fails in the model call, and in the save, over a profile an earlier
\* run has written.
FailedExtractionLeavesCVWitness ==
    \E w \in Workers :
        /\ run[w].pc = "failed"
        /\ run[w].error.stage \in {"invoke CVData", "save"}
        /\ cvs[run[w].cv].raw_text # None
        /\ cvs[run[w].cv].year_experience = Some(2)


\* C13: with requests for one (job, cv) pair overlapping, the pair ends with
\* exactly one CVMatching row, carrying the result of the run whose
\* update_or_create completed last, also when the pair had no row before.
OverlappingRunsLeaveOneMatching ==
    \A job_offer \in Jobs, cv \in CVIds :
        LET rows == Matching(matchings, job_offer, cv)
            runs == RunsOf(job_offer, cv)
        IN runs # {} =>
               \E m \in rows :
                   /\ rows = {m}
                   /\ m.score = history[Latest(runs)].score
                   /\ get_score_details(m)
                          = history[Latest(runs)].score_details


\* ------------------------------------------------- claims on the raw text
\* The characters of the pages, in page order, that are not whitespace.
Inked(texts) ==
    SelectSeq(Join(<< >>, texts), LAMBDA c : c \notin Whitespace)

\* C15: for a recognized suffix, extract_raw raises exactly when the text
\* extracted, trimmed, is empty; for a PDF the text returned is the pages
\* that yield text, in page order, joined by newlines and trimmed, the pages
\* yielding none being skipped.
RawTextRule ==
    LET file == scorer.file
        r == scorer.raw_text
        pages == SelectSeq(file.texts, LAMBDA t : t # << >>)
        text == IF file.suffix \in {".pdf", ".PDF"}
                THEN Join(<<"\n">>, pages)
                ELSE file.texts[1]
    IN (scorer.fn = "extract_raw" /\ scorer.returned
        /\ file.suffix \in RecognizedSuffixes)
       => /\ ~r.ok <=> Strip(text) = << >>
          /\ ~r.ok <=> Inked(file.texts) = << >>
          /\ ~r.ok => r.exc = "ValueError"
          /\ r.ok => /\ r.value = Strip(text)
                      /\ r.value[1] \notin Whitespace
                      /\ r.value[Len(r.value)] \notin Whitespace
          /\ file = [suffix |-> ".pdf",
                     texts |-> <<<<"x">>, << >>, <<"y", " ">>>>]
                 => r.value = <<"x", "\n", "y">>

\* A PDF of three pages, the second yielding no text.
RawTextRuleWitness ==
    /\ scorer.fn = "extract_raw" /\ scorer.returned
    /\ scorer.file.suffix = ".pdf"
    /\ scorer.file.texts = <<<<"x">>, << >>, <<"y", " ">>>>
    /\ scorer.raw_text = [ok |-> TRUE, value |-> <<"x", "\n", "y">>, exc |-> ""]


\* ------------------------------------------ claims on the extracted profile
Has(dict, key, value) == \E p \in dict : p[1] = key /\ p[2] = value

\* C16: after a successful semantic extraction every attribute of the CVData
\* the model returned is what the CV row holds, and is what the candidate
\* mapping handed to the adjustment model holds.
ExtractedProfileKept ==
    \A w \in Workers :
        LET r == run[w]
            cv == cvs[r.cv]
        IN (r.llm /\ r.pc \in {"compute_score", "invoke_adjustment"}) =>
               /\ cv.name = r.result.name
               /\ cv.website = r.result.website
               /\ cv.phone_number = r.result.phone_number
               /\ cv.email = r.result.email
               /\ cv.description = r.result.description
               /\ cv.diploma = r.result.diploma
               /\ cv.skills = Join(<<",", " ">>, r.result.skills)
               /\ cv.diploma_ranking = Some(r.result.diploma_ranking)
               /\ cv.year_experience = Some(r.result.year_experience)
               /\ cv.experiences = r.result.experiences
               /\ cv.languages = Join(<<",", " ">>, r.result.languages)
               /\ cv.certifications = r.result.certifications
               /\ r.pc = "invoke_adjustment" =>
                      /\ Has(r.candidate_data, "name", r.result.name)
                      /\ Has(r.candidate_data, "website", r.result.website)
                      /\ Has(r.candidate_data, "phone_number",
                             r.result.phone_number)
                      /\ Has(r.candidate_data, "email", r.result.email)
                      /\ Has(r.candidate_data, "description",
                             r.result.description)
                      /\ Has(r.candidate_data, "diploma", r.result.diploma)
                      /\ Has(r.candidate_data, "skills",
                             Some(Join(<<",", " ">>, r.result.skills)))
                      /\ Has(r.candidate_data, "diploma_ranking",
                             Some(r.result.diploma_ranking))
                      /\ Has(r.candidate_data, "year_experience",
                             Some(r.result.year_experience))
                      /\ Has(r.candidate_data, "experiences",
                             Some(Join(<<",", " ">>, r.result.experiences[1])))
                      /\ Has(r.candidate_data, "languages",
                             Some(Join(<<",", " ">>, r.result.languages)))
                      /\ Has(r.candidate_data, "certifications",
                             Some(Join(<<",", " ">>, r.result.certifications)))


\* ------------------------------------------------ claims on the order of a run
\* The steps of a run in the order of the code.
Order ==
    <<"extract_raw", "invoke CVData", "compute_deterministic_score",
      "invoke ScoringData", "json.dumps", "update_or_create">>

Pos(e) == CHOOSE i \in DOMAIN Order : Order[i] = e

\* C17: within a run the steps taken are in the order document read,
\* extraction model call, deterministic scoring, adjustment model call,
\* update_or_create, each at most once (no model call is made again); the
\* adjustment model is called only after the extraction returned and the
\* three deterministic scores were computed.
EventsInOrder ==
    \A w \in Workers :
        LET r == run[w]
        IN /\ \A i, j \in DOMAIN r.events :
                  i < j => Pos(r.events[i]) < Pos(r.events[j])
           /\ Cardinality(ModelCalls(r)) <= 2
           /\ (\E i \in DOMAIN r.events : r.events[i] = "invoke ScoringData")
                  => /\ r.llm
                     /\ r.error.stage \notin ExtractionStages
                     /\ r.extractor = assign(r.extractor, r.result)
                     /\ \E i \in DOMAIN r.events :
                            r.events[i] = "invoke CVData"
                     /\ \E i \in DOMAIN r.events :
                            r.events[i] = "compute_deterministic_score"
                     /\ {p[1] : p \in r.deterministic_score}
                            = {"experience_score", "skill_score",
                               "diploma_score"}

EventsInOrderWitness ==
    \E w \in Workers : run[w].pc = "done" /\ run[w].events = Order

\* C18: when the extraction of a run succeeded and a later stage of it
\* raised (deterministic scoring, the adjustment call, json.dumps), the CV
\* row holds the profile that run extracted and the CVMatching rows are what
\* they were when the run began.
LaterFailureKeepsProfile ==
    \A w \in Workers :
        LET r == run[w]
            cv == cvs[r.cv]
        IN (r.pc = "failed" /\ r.llm
            /\ r.error.stage \in {"compute_deterministic_score", "to_dict",
                                  "invoke ScoringData", "json.dumps"})
           => /\ cv = save(r.cv_before, r.extractor)
              /\ cv.name = r.result.name
              /\ cv.year_experience = Some(r.result.year_experience)
              /\ cv.diploma_ranking = Some(r.result.diploma_ranking)
              /\ cv.raw_text = Some(extract_raw(cv.file).value)
              /\ matchings = r.before

\* The adjustment call, and json.dumps, fail over a CV row the run changed.
LaterFailureKeepsProfileWitness ==
    \E w \in Workers :
        /\ run[w].pc = "failed" /\ run[w].llm
        /\ run[w].error.stage \in {"invoke ScoringData", "json.dumps"}
        /\ cvs[run[w].cv] # run[w].cv_before
        /\ run[w].cv_before.year_experience = Some(2)
        /\ cvs[run[w].cv].year_experience = Some(0)
        /\ matchings # {}

\* ------------------------------------------- claims on overlapping requests
\* The extractor a run holds in memory once its own model call returned.
Own(r) == assign(NewExtractor, r.result)

\* C19: the deterministic scores and the candidate mapping of a run are
\* those of its own extraction result and its job offer, whatever the CV row
\* holds, and the CVMatching row of a pair carries the score and details of
\* the run of the pair that wrote last, with requests overlapping in every
\* way.
OwnExtractionScored ==
    \A w \in Workers :
        LET r == run[w]
        IN /\ (r.llm /\ \E i \in DOMAIN r.events :
                            r.events[i] = "compute_deterministic_score")
                  => /\ r.deterministic_score
                            = compute_deterministic_score(
                                  JobOffers[r.job_offer], Own(r)).value
                     /\ r.candidate_data = to_dict(Own(r)).value
           /\ (r.pc = "done"
               /\ history[Latest(RunsOf(r.job_offer, r.cv))].id = r.id)
                  => \E m \in Matching(matchings, r.job_offer, r.cv) :
                         /\ m.score = r.score_value
                         /\ get_score_details(m) = r.score_details
                         /\ r.llm => m.score = global_score(r.score_details)

\* Two requests for one CV against the two job offers have both returned,
\* one of them having scored a profile the CV row no longer holds.
OwnExtractionScoredWitness ==
    \E w, v \in Workers :
        /\ run[w].pc = "done" /\ run[v].pc = "done"
        /\ run[w].cv = run[v].cv
        /\ run[w].job_offer = 1 /\ run[v].job_offer = 2
        /\ run[w].result.year_experience = 2
        /\ cvs[run[w].cv].year_experience = Some(0)
        /\ Get(run[w].deterministic_score, "experience_score") = Frac(50, 1)
        /\ Cardinality(matchings) = 2

====
